---------------------------- MODULE Spec2Model ----------------------------
(***************************************************************************)
(* The Trello adapters of this repository as one state machine.            *)
(*                                                                         *)
(* Four programs share the forwarding logic:                               *)
(*   "mcp"     src/mcp.js 1-256     McpServer over stdio (trelloFetch)     *)
(*   "http"    src/mcp.js 258-517   express proxy (trelloRequest)          *)
(*   "fastmcp" src/index.js         fastmcp server (trelloRequest)         *)
(*   "oldhttp" src/unnamed/part_000 older express proxy (trelloRequest)    *)
(*                                                                         *)
(* Strings are TLA+ strings handled character by character (SubSeq, Len,   *)
(* \o), so URL building, parsing, form encoding and substring tests are    *)
(* computed the way the JavaScript computes them.                          *)
(***************************************************************************)
EXTENDS Naturals, Sequences, FiniteSets, TLC

VARIABLES
  variant,     \* which of the four programs runs
  API_KEY,     \* process.env.TRELLO_API_KEY  (a JS value: undefined or a string)
  TOKEN,       \* process.env.TRELLO_TOKEN
  BOARD_ID,    \* process.env.TRELLO_BOARD_ID
  proc,        \* "starting" | "running" | "exited"
  call,        \* the inbound tool call / HTTP request being served
  pc,          \* position of its handler: "idle" | "fetch" | "dl1" | "dl2" | "done"
  sent,        \* outbound requests issued for the current inbound call, in order
  responses,   \* what the network answered to them, in order
  attachment,  \* getAttachmentContent: the attachment JSON returned by Trello
  parsedUrl,   \* downloadAttachment: the URL object of the first attempt
  result,      \* what the caller of the handler gets
  hist         \* harness for appendAuthParams: the URL objects it returned

vars == <<variant, API_KEY, TOKEN, BOARD_ID, proc, call, pc, sent, responses,
          attachment, parsedUrl, result, hist>>

env == <<variant, API_KEY, TOKEN, BOARD_ID>>

-----------------------------------------------------------------------------
(* Bounds of the model                                                      *)

\* entries of a query mapping handed to the forwarding function by the harness
MaxEntries == 2

\* query parameters of a URL handed to appendAuthParams by the harness
MaxParams == 2

-----------------------------------------------------------------------------
(* Strings                                                                  *)

CharAt(s, i) == SubSeq(s, i, i)

\* String.prototype.includes
Includes(s, sub) ==
  \E i \in 1..(Len(s) + 1) :
    /\ i + Len(sub) - 1 <= Len(s)
    /\ SubSeq(s, i, i + Len(sub) - 1) = sub

StartsWith(s, p) == Len(p) <= Len(s) /\ SubSeq(s, 1, Len(p)) = p

\* position of the first occurrence of the character c in s, 0 when absent
IndexOf(s, c) ==
  IF \A i \in 1..Len(s) : CharAt(s, i) # c THEN 0
  ELSE CHOOSE i \in 1..Len(s) :
         CharAt(s, i) = c /\ \A j \in 1..(i - 1) : CharAt(s, j) # c

RECURSIVE Split(_, _)
Split(s, c) ==
  LET i == IndexOf(s, c)
  IN IF i = 0 THEN <<s>>
     ELSE <<SubSeq(s, 1, i - 1)>> \o Split(SubSeq(s, i + 1, Len(s)), c)

Digit(d) == CharAt("0123456789", d + 1)

\* the decimal representation JavaScript gives a non-negative integer
RECURSIVE NatToStr(_)
NatToStr(n) == IF n < 10 THEN Digit(n) ELSE NatToStr(n \div 10) \o Digit(n % 10)

-----------------------------------------------------------------------------
(* JavaScript values.  Every value is a record of the same shape, so that  *)
(* values of different JavaScript types can be compared.                    *)
(* An object is the sequence of its entries [k, v] in insertion order.      *)

Undef   == [t |-> "undef", s |-> "", n |-> 0, o |-> <<>>]
Null    == [t |-> "null",  s |-> "", n |-> 0, o |-> <<>>]
Str(x)  == [t |-> "str",   s |-> x,  n |-> 0, o |-> <<>>]
Num(x)  == [t |-> "num",   s |-> "", n |-> x, o |-> <<>>]
Bool(b) == [t |-> "bool",  s |-> "", n |-> IF b THEN 1 ELSE 0, o |-> <<>>]
Obj(es) == [t |-> "obj",   s |-> "", n |-> 0, o |-> es]

Entry(k, v) == [k |-> k, v |-> v]

\* an array: its elements under their indices
Arr(vs) ==
  [t |-> "arr", s |-> "", n |-> 0,
   o |-> [i \in 1..Len(vs) |-> Entry(NatToStr(i - 1), vs[i])]]

Keys(es) == {es[i].k : i \in 1..Len(es)}

\* obj[k]
Get(es, k) ==
  IF k \in Keys(es)
  THEN es[CHOOSE i \in 1..Len(es) : es[i].k = k].v
  ELSE Undef

\* property access on any value: v.k (a primitive has none of the names used)
Prop(v, k) == IF v.t = "obj" THEN Get(v.o, k) ELSE Undef

\* ToBoolean
Truthy(v) ==
  CASE v.t = "str"  -> v.s # ""
    [] v.t = "num"  -> v.n # 0
    [] v.t = "bool" -> v.n = 1
    [] v.t \in {"obj", "arr", "bytes", "form"} -> TRUE
    [] OTHER        -> FALSE

\* v === undefined || v === null
Nullish(v) == v.t \in {"undef", "null"}

\* a ?? b
Coalesce(a, b) == IF Nullish(a) THEN b ELSE a

\* mutant: the second operand wins whenever it is truthy
OrElse_Second(a, b) == IF Truthy(b) THEN b ELSE a

\* a || b
OrElse(a, b) == IF Truthy(a) THEN a ELSE b

\* String(v), also what a template literal `${v}` gives
JsString(v) ==
  CASE v.t = "str"   -> v.s
    [] v.t = "num"   -> NatToStr(v.n)
    [] v.t = "bool"  -> IF v.n = 1 THEN "true" ELSE "false"
    [] v.t = "undef" -> "undefined"
    [] v.t = "null"  -> "null"
    [] OTHER         -> "[object Object]"

\* Object.entries(v): the entries of an object, the indexed characters of a
\* string, nothing for a number or a boolean
ObjectEntries(v) ==
  CASE v.t \in {"obj", "arr"} -> v.o
    [] v.t = "str" -> [i \in 1..Len(v.s) |-> Entry(NatToStr(i - 1), Str(CharAt(v.s, i)))]
    [] OTHER       -> <<>>

\* JSON.stringify(obj) of a flat object: entries whose value is undefined are left out
JsonStringify(v) ==
  IF v.t = "obj"
  THEN Obj(SelectSeq(v.o, LAMBDA e : e.v.t # "undef"))
  ELSE v

-----------------------------------------------------------------------------
(* URLs.  A URL object is [base, search]: everything before the first "?"  *)
(* and the raw query string after it.  url.searchParams is the list parsed  *)
(* from the query string; changing it rewrites the whole query string in   *)
(* application/x-www-form-urlencoded form.                                  *)

\* percent codes of the characters of the model's inputs that the
\* form-urlencoded serializer does not leave as they are (letters, digits and
\* "*-._" stay; a space becomes "+")
PctTable ==
  << <<"?", "3F">>, <<"&", "26">>, <<"=", "3D">>, <<"+", "2B">>,
     <<"%", "25">>, <<",", "2C">>, <<"/", "2F">>, <<":", "3A">>,
     <<" ", "20">> >>

EncodeChar(c) ==
  IF c = " " THEN "+"
  ELSE IF \E i \in 1..Len(PctTable) : PctTable[i][1] = c
       THEN "%" \o PctTable[CHOOSE i \in 1..Len(PctTable) : PctTable[i][1] = c][2]
       ELSE c

RECURSIVE Encode(_)
Encode(s) ==
  IF s = "" THEN "" ELSE EncodeChar(CharAt(s, 1)) \o Encode(SubSeq(s, 2, Len(s)))

RECURSIVE Decode(_)
Decode(s) ==
  IF s = "" THEN ""
  ELSE LET c == CharAt(s, 1)
       IN IF c = "+" THEN " " \o Decode(SubSeq(s, 2, Len(s)))
          ELSE IF /\ c = "%"
                  /\ Len(s) >= 3
                  /\ \E i \in 1..Len(PctTable) : PctTable[i][2] = SubSeq(s, 2, 3)
               THEN PctTable[CHOOSE i \in 1..Len(PctTable) :
                               PctTable[i][2] = SubSeq(s, 2, 3)][1]
                      \o Decode(SubSeq(s, 4, Len(s)))
               ELSE c \o Decode(SubSeq(s, 2, Len(s)))

\* one "name=value" piece of a query string
ParsePair(piece) ==
  LET i == IndexOf(piece, "=")
  IN IF i = 0 THEN Entry(Decode(piece), "")
     ELSE Entry(Decode(SubSeq(piece, 1, i - 1)),
                Decode(SubSeq(piece, i + 1, Len(piece))))

\* the parameters a query string carries, as its receiver reads them
ParseQuery(search) ==
  LET pieces == SelectSeq(Split(search, "&"), LAMBDA p : p # "")
  IN [i \in 1..Len(pieces) |-> ParsePair(pieces[i])]

RECURSIVE Serialize(_)
Serialize(params) ==
  IF params = <<>> THEN ""
  ELSE Encode(params[1].k) \o "=" \o Encode(params[1].v)
         \o (IF Len(params) = 1 THEN "" ELSE "&" \o Serialize(Tail(params)))

\* new URL(string); the caller checks IsUrl first
NewURL(str) ==
  LET i == IndexOf(str, "?")
  IN IF i = 0 THEN [base |-> str, search |-> ""]
     ELSE [base |-> SubSeq(str, 1, i - 1), search |-> SubSeq(str, i + 1, Len(str))]

\* new URL(string) throws on a string that has no scheme
IsUrl(str) == StartsWith(str, "https://") /\ Len(str) > Len("https://")

\* url.href
Href(url) == url.base \o (IF url.search = "" THEN "" ELSE "?" \o url.search)

SearchParams(url) == ParseQuery(url.search)

\* the values of the parameters called k, in order
ParamValues(params, k) ==
  LET hits == SelectSeq(params, LAMBDA e : e.k = k)
  IN [i \in 1..Len(hits) |-> hits[i].v]

\* url.searchParams.has(k)
Has(url, k) == k \in Keys(SearchParams(url))

\* URLSearchParams.set: the first parameter called k gets the value, further
\* ones are removed; appended when there is none
SetParam(params, k, v) ==
  IF k \in Keys(params)
  THEN LET first == CHOOSE i \in 1..Len(params) :
                      params[i].k = k /\ \A j \in 1..(i - 1) : params[j].k # k
           keep  == {i \in 1..Len(params) : params[i].k # k \/ i = first}
           RECURSIVE Pick(_)
           Pick(i) == IF i > Len(params) THEN <<>>
                      ELSE (IF i \in keep
                            THEN <<IF i = first THEN Entry(k, v) ELSE params[i]>>
                            ELSE <<>>) \o Pick(i + 1)
       IN Pick(1)
  ELSE Append(params, Entry(k, v))

\* url.searchParams.set(k, v)
UrlSet(url, k, v) ==
  [url EXCEPT !.search = Serialize(SetParam(SearchParams(url), k, v))]

-----------------------------------------------------------------------------
(* Credentials and the forwarding functions                                *)

TRELLO_BASE == "https://api.trello.com/1"

\* process.env.TRELLO_BOARD_ID || null
DEFAULT_BOARD_ID == OrElse(BOARD_ID, Null)

\* !API_KEY || !TOKEN
CredsMissing == ~Truthy(API_KEY) \/ ~Truthy(TOKEN)

MissingCredsMsg == "Missing TRELLO_API_KEY or TRELLO_TOKEN in environment"

\* an outbound request as the network sees it
Req(dest, method, url, body, ctype) ==
  [dest |-> dest, method |-> method, url |-> url, body |-> body, ctype |-> ctype]

NoReq == Req("", "", "", Undef, "")

\* what a synchronous stretch of code ends with: an exception or a fetch
Throw(msg) == [throw |-> TRUE, msg |-> msg, req |-> NoReq]
Fetch(req) == [throw |-> FALSE, msg |-> "", req |-> req]

\* mutant: sets both parameters whether or not the URL has them
appendAuthParams_Overwrite(url) ==
  UrlSet(UrlSet(url, "key", JsString(API_KEY)), "token", JsString(TOKEN))

appendAuthParams(url) ==
  LET u1 == IF ~Has(url, "key") THEN UrlSet(url, "key", JsString(API_KEY)) ELSE url
  IN IF ~Has(u1, "token") THEN UrlSet(u1, "token", JsString(TOKEN)) ELSE u1

\* mutant: sets every entry, undefined and null included
RECURSIVE AddQuery_NoSkip(_, _)
AddQuery_NoSkip(url, entries) ==
  IF entries = <<>> THEN url
  ELSE AddQuery_NoSkip(UrlSet(url, entries[1].k, JsString(entries[1].v)),
                       Tail(entries))

\* for (const [key, value] of Object.entries(query)) { skip undefined/null; set }
RECURSIVE AddQuery(_, _)
AddQuery(url, entries) ==
  IF entries = <<>> THEN url
  ELSE AddQuery(IF Nullish(entries[1].v) THEN url
                ELSE UrlSet(url, entries[1].k, JsString(entries[1].v)),
                Tail(entries))

\* a destructuring default: used when the property is undefined
Default(v, d) == IF v.t = "undef" THEN d ELSE v

\* if (body && method !== 'GET'): a URLSearchParams body goes out form-encoded,
\* any other body as JSON
WithBody(dest, method, url, body) ==
  IF Truthy(body) /\ method # "GET"
  THEN IF body.t = "form"
       THEN Req(dest, method, url, body, "application/x-www-form-urlencoded")
       ELSE Req(dest, method, url, JsonStringify(body), "application/json")
  ELSE Req(dest, method, url, Undef, "")

\* options.method ? options : { method: 'GET', query: options.query ?? options,
\*                              body: options.body ?? null }
Normalize(options) ==
  IF Truthy(Prop(options, "method")) THEN options
  ELSE Obj(<<Entry("method", Str("GET")),
             Entry("query", Coalesce(Prop(options, "query"), options)),
             Entry("body", Coalesce(Prop(options, "body"), Null))>>)

\* the common part of trelloFetch and the express trelloRequest, from the
\* destructuring of the options to the call of fetch
BuildRequest(endpoint, options) ==
  LET method == JsString(Default(Prop(options, "method"), Str("GET")))
      query  == Default(Prop(options, "query"), Obj(<<>>))
      body   == Default(Prop(options, "body"), Null)
      url    == appendAuthParams(NewURL(TRELLO_BASE \o endpoint))
  IN IF Nullish(query)
     THEN Throw("Cannot convert undefined or null to object")
     ELSE Fetch(WithBody("trello", method,
                         Href(AddQuery(url, ObjectEntries(query))), body))

\* mutant: trelloFetch without its call of ensureCreds
trelloFetch_NoEnsureCreds(endpoint, options) ==
  BuildRequest(endpoint, Normalize(options))

\* "mcp": trelloFetch up to its await
trelloFetch(endpoint, options) ==
  IF CredsMissing THEN Throw(MissingCredsMsg)
  ELSE BuildRequest(endpoint, Normalize(options))

\* "http": trelloRequest(endpoint, options) up to its await
trelloRequestHttp(endpoint, options) == BuildRequest(endpoint, options)

\* "fastmcp", "oldhttp": trelloRequest(endpoint, method, body) up to its await;
\* the URL is a string built by concatenation and Content-Type is always set
trelloRequest(endpoint, method, body) ==
  LET url == TRELLO_BASE \o endpoint \o "?key=" \o JsString(API_KEY)
               \o "&token=" \o JsString(TOKEN)
  IN Fetch(Req("trello", method, url,
               IF Truthy(body) /\ method # "GET" THEN JsonStringify(body) ELSE Undef,
               "application/json"))

-----------------------------------------------------------------------------
(* Responses of the network                                                 *)

\* net: fetch resolved (else it rejected with errmsg).  textOk: res.text()
\* resolves (else it rejects with errmsg).  jsonOk: res.json() resolves (else
\* it rejects with errmsg).
Response(net, errmsg, status, statusText, textOk, text, jsonOk, json, ctype, bytes) ==
  [net |-> net, errmsg |-> errmsg, status |-> status, statusText |-> statusText,
   textOk |-> textOk, text |-> text, jsonOk |-> jsonOk, json |-> json,
   ctype |-> ctype, bytes |-> bytes]

\* res.ok
IsOk(r) == r.status >= 200 /\ r.status <= 299

\* the outcome of an awaited stretch: a value or an exception
Value(json) == [ok |-> TRUE, msg |-> "", json |-> json]
Err(msg)    == [ok |-> FALSE, msg |-> msg, json |-> Undef]

\* "mcp": trelloFetch from its await on
trelloFetchSettle(r) ==
  IF ~r.net THEN Err(r.errmsg)
  ELSE IF ~IsOk(r)
       THEN Err("Trello API " \o NatToStr(r.status) \o ": "
                  \o (IF r.textOk THEN r.text ELSE ""))
       ELSE IF r.jsonOk THEN Value(r.json) ELSE Err(r.errmsg)

\* the other three: trelloRequest from its await on; whatever is thrown inside
\* the try block, the failed res.text() included, is caught and wrapped
trelloRequestSettle(r) ==
  LET inner ==
        IF ~r.net THEN Err(r.errmsg)
        ELSE IF ~IsOk(r)
             THEN IF r.textOk
                  THEN Err("Trello API error: " \o NatToStr(r.status) \o " "
                             \o r.statusText \o " - " \o r.text)
                  ELSE Err(r.errmsg)
             ELSE IF r.jsonOk THEN Value(r.json) ELSE Err(r.errmsg)
  IN IF inner.ok THEN inner
     ELSE Err("Failed to make Trello request: " \o inner.msg)

\* attemptFetch of downloadAttachment ("mcp") and fetchAttachmentBinary ("http")
attemptFetch(r) ==
  IF ~r.net THEN Err(r.errmsg)
  ELSE IF ~IsOk(r)
       THEN LET text == IF r.textOk THEN r.text ELSE ""
            IN IF variant = "mcp"
               THEN Err("Attachment download " \o NatToStr(r.status) \o ": " \o text)
               ELSE Err("Failed to download attachment: " \o NatToStr(r.status)
                          \o " " \o r.statusText \o " " \o text)
       ELSE Value(Undef)

\* mutant: only 401 leads to the retry
ShouldRetry_Only401(msg) == Includes(msg, "401")

\* the catch of downloadAttachment / fetchAttachmentBinary: retry with credentials?
ShouldRetry(msg) == Includes(msg, "401") \/ Includes(msg, "403")

-----------------------------------------------------------------------------
(* Inputs of the model: the environment, the arguments of the inbound      *)
(* calls and the answers of the network are drawn from these sets.          *)

Variants == {"mcp", "http", "fastmcp", "oldhttp"}

EnvKeys     == {Undef, Str(""), Str("K1")}
EnvTokens   == {Undef, Str(""), Str("T1")}
EnvBoardIds == {Undef, Str("B0")}

OptBoardIds == {Undef, Str(""), Str("B1")}
ListIds     == {Str("L1")}
CardIds     == {Str("C1")}
AttIds      == {Str("A1")}
CardNames   == {Str("Fix bug")}
OptDescs    == {Undef, Str("d")}
OptPos      == {Undef, Str("top")}
OptLimits   == {Undef, Num(5), Num(50), Num(60)}

\* req.body of POST /cards: an object with any of the four fields
PostBodies ==
  { Obj(SelectSeq(<<Entry("listId", l), Entry("name", n),
                    Entry("description", d), Entry("pos", p)>>,
                  LAMBDA e : e.v.t # "undef")) :
      l \in {Undef, Str(""), Str("L1")},
      n \in {Undef, Str(""), Str("Fix bug")},
      d \in {Undef, Str("d")},
      p \in {Undef, Str("top"), Num(3), Str(""), Bool(TRUE)} }

\* the attachment objects Trello may return
AttachmentJsons ==
  { Obj(<<Entry("id", Str("A1")), Entry("url", Str("https://h.io/a.png")),
          Entry("mimeType", Str("image/png")), Entry("fileName", Str("a.png"))>>),
    Obj(<<Entry("id", Str("A1")), Entry("url", Str("https://h.io/a?token=s1")),
          Entry("name", Str("a"))>>),
    Obj(<<Entry("id", Str("A1")), Entry("url", Str("https://h.io/a?sig=x%2By&key=k0"))>>),
    Obj(<<Entry("id", Str("A1")), Entry("url", Str("a.png"))>>),
    Obj(<<Entry("id", Str("A1"))>>),
    Null }

\* the JSON Trello may answer the other calls with: an entity, a list of
\* entities (empty, or of one action), null
EntityJsons ==
  { Obj(<<Entry("id", Str("X1")), Entry("name", Str("x"))>>),
    Arr(<<>>),
    Arr(<<Obj(<<Entry("id", Str("X1")), Entry("type", Str("updateCard")),
                Entry("data", Obj(<<>>))>>)>>),
    Null }

Rejected(msg) == Response(FALSE, msg, 0, "", FALSE, "", FALSE, Undef, "", <<>>)

\* the reason phrase Trello sends with a status
ReasonPhrase(status) ==
  CASE status = 401 -> "Unauthorized"
    [] status = 404 -> "Not Found"
    [] status = 429 -> "Too Many Requests"
    [] OTHER        -> "Internal Server Error"

\* answers of api.trello.com to a forwarding call
TrelloResponses(jsons) ==
  {Rejected("socket hang up")}
  \cup { Response(TRUE, "Unexpected token", 200, "OK", TRUE, "", ok, IF ok THEN j ELSE Undef, "", <<>>) :
           ok \in BOOLEAN, j \in jsons }
  \cup { Response(TRUE, "Premature close", st, ReasonPhrase(st), tx[1], tx[2], FALSE, Undef, "", <<>>) :
           st \in {401, 404, 429, 500},
           tx \in {<<TRUE, "">>, <<TRUE, "not found">>, <<FALSE, "">>} }

\* answers of the attachment host to a download attempt
DownloadResponses ==
  {Rejected("socket hang up")}
  \cup { Response(TRUE, "", 200, "OK", TRUE, "", FALSE, Undef, ct, b) :
           ct \in {"", "image/gif"},
           b \in {<<>>, <<77>>, <<77, 97>>, <<77, 97, 110>>, <<255, 0, 128, 7>>} }
  \cup { Response(TRUE, "Premature close", st, stx, tx[1], tx[2], FALSE, Undef, "", <<>>) :
           st \in {401, 403, 404, 500},
           stx \in {"", "Err"},
           tx \in {<<TRUE, "">>, <<TRUE, "see 401">>, <<FALSE, "">>} }

-----------------------------------------------------------------------------
(* State                                                                    *)

NoCall   == [tool |-> "", args |-> <<>>]
NoResult == [kind |-> "none", status |-> 0, isError |-> FALSE, msg |-> "", data |-> Undef]
NoUrl    == [base |-> "", search |-> ""]

Init ==
  /\ variant \in Variants
  /\ API_KEY \in EnvKeys
  /\ TOKEN \in EnvTokens
  /\ BOARD_ID \in EnvBoardIds
  /\ proc = "starting"
  /\ call = NoCall
  /\ pc = "idle"
  /\ sent = <<>>
  /\ responses = <<>>
  /\ attachment = Undef
  /\ parsedUrl = NoUrl
  /\ result = NoResult
  /\ hist = <<>>

\* the module's top-level code: the express and fastmcp programs validate the
\* credentials and exit; the McpServer program only connects its transport
\* mutant: no program validates its credentials at startup
Startup_NoValidation ==
  /\ proc = "starting"
  /\ proc' = "running"
  /\ UNCHANGED <<env, call, pc, sent, responses, attachment, parsedUrl, result, hist>>

Startup ==
  /\ proc = "starting"
  /\ proc' = IF variant # "mcp" /\ CredsMissing THEN "exited" ELSE "running"
  /\ UNCHANGED <<env, call, pc, sent, responses, attachment, parsedUrl, result, hist>>

\* the prefix a fastmcp tool's catch block puts before the message
ErrPrefix(tool) ==
  CASE tool = "get_boards"         -> "Error fetching boards: "
    [] tool = "get_lists"          -> "Error fetching lists: "
    [] tool = "get_cards"          -> "Error fetching cards: "
    [] tool = "create_card"        -> "Error creating card: "
    [] tool = "update_card"        -> "Error updating card: "
    [] tool = "move_card"          -> "Error moving card: "
    [] tool = "archive_card"       -> "Error archiving card: "
    [] tool = "get_board_activity" -> "Error fetching board activity: "
    [] OTHER                       -> ""

\* what an exception in a handler becomes.  "mcp": the handler has no catch,
\* the exception goes to the McpServer the tool is registered on, which answers
\* the call with {content: [text: error.message], isError: true}.  "fastmcp":
\* the handler's catch returns {content: [text: prefix + message], isError:
\* true}.  express: next(error) reaches the error handler, which answers
\* 500 {error: message}
Raise(tool, msg) ==
  CASE variant = "mcp"     -> [kind |-> "error", status |-> 0, isError |-> TRUE,
                               msg |-> msg, data |-> Undef]
    [] variant = "fastmcp" -> [kind |-> "error", status |-> 0, isError |-> TRUE,
                               msg |-> ErrPrefix(tool) \o msg, data |-> Undef]
    [] OTHER               -> [kind |-> "error", status |-> 500, isError |-> FALSE,
                               msg |-> msg, data |-> Undef]

\* "fastmcp": the TypeError a tool raises while it formats Trello's JSON into
\* its text ("" when it raises none).  The list tools read .length and call
\* .map, the card tools read card.name
FormatThrows(tool, json) ==
  LET what == CASE tool = "get_boards" -> "boards"
                [] tool = "get_lists"  -> "lists"
                [] tool = "get_cards"  -> "cards"
                [] OTHER               -> "actions"
      first == IF tool \in {"get_boards", "get_lists"} THEN "map" ELSE "length"
  IN IF tool \in {"get_boards", "get_lists", "get_cards", "get_board_activity"}
     THEN IF Nullish(json)
          THEN "Cannot read properties of null (reading '" \o first \o "')"
          ELSE IF json.t # "arr" THEN what \o ".map is not a function"
          ELSE ""
     ELSE IF Nullish(json)
          THEN "Cannot read properties of null (reading 'name')"
          ELSE ""

\* the successful answer of a handler that passes Trello's JSON on
Respond(tool, json) ==
  [kind |-> "ok", isError |-> FALSE,
   status |-> IF variant \in {"http", "oldhttp"}
              THEN (IF tool = "POST /cards" THEN 201 ELSE 200) ELSE 0,
   msg |-> "", data |-> json]

\* the server is up and no handler is running
Idle == proc = "running" /\ pc = "idle"

\* a handler from its start to its first await (or to its end, when it throws
\* before): out is what the synchronous stretch ended with
Begin(tool, args, out) ==
  /\ Idle
  /\ call' = [tool |-> tool, args |-> args]
  /\ IF out.throw
     THEN /\ result' = Raise(tool, out.msg)
          /\ pc' = "done"
          /\ sent' = <<>>
     ELSE /\ result' = NoResult
          /\ pc' = "fetch"
          /\ sent' = <<out.req>>
  /\ UNCHANGED <<env, proc, responses, attachment, parsedUrl, hist>>

-----------------------------------------------------------------------------
(* "mcp": the tools registered on the McpServer                             *)

listBoards ==
  /\ Idle
  /\ variant = "mcp"
  /\ Begin("listBoards", <<>>,
           trelloFetch("/members/me/boards",
                       Obj(<<Entry("fields", Str("name,url,closed,idOrganization"))>>)))

getBoardLists ==
  /\ Idle
  /\ variant = "mcp"
  /\ \E boardId \in OptBoardIds :
       LET id == OrElse(boardId, DEFAULT_BOARD_ID)
       IN Begin("getBoardLists", <<Entry("boardId", boardId)>>,
                IF ~Truthy(id)
                THEN Throw("boardId is required (or set TRELLO_BOARD_ID).")
                ELSE trelloFetch("/boards/" \o JsString(id) \o "/lists",
                                 Obj(<<Entry("fields", Str("name,closed"))>>)))

getListCards ==
  /\ Idle
  /\ variant = "mcp"
  /\ \E listId \in ListIds :
       Begin("getListCards", <<Entry("listId", listId)>>,
             trelloFetch("/lists/" \o JsString(listId) \o "/cards",
                         Obj(<<Entry("fields", Str("name,desc,url,idList"))>>)))

getCard ==
  /\ Idle
  /\ variant = "mcp"
  /\ \E cardId \in CardIds :
       Begin("getCard", <<Entry("cardId", cardId)>>,
             trelloFetch("/cards/" \o JsString(cardId), Obj(<<>>)))

getCardAttachments ==
  /\ Idle
  /\ variant = "mcp"
  /\ \E cardId \in CardIds :
       Begin("getCardAttachments", <<Entry("cardId", cardId)>>,
             trelloFetch("/cards/" \o JsString(cardId) \o "/attachments", Obj(<<>>)))

createCard ==
  /\ Idle
  /\ variant = "mcp"
  /\ \E idList \in ListIds, name \in CardNames, desc \in OptDescs, pos \in OptPos :
       Begin("createCard",
             <<Entry("idList", idList), Entry("name", name),
               Entry("desc", desc), Entry("pos", pos)>>,
             trelloFetch("/cards",
                         Obj(<<Entry("method", Str("POST")),
                               Entry("query",
                                     Obj(<<Entry("idList", idList), Entry("name", name),
                                           Entry("desc", desc), Entry("pos", pos)>>))>>)))

getAttachmentContent ==
  /\ Idle
  /\ variant = "mcp"
  /\ \E cardId \in CardIds, attachmentId \in AttIds,
        includeMeta \in BOOLEAN, includeDataUri \in BOOLEAN :
       Begin("getAttachmentContent",
             <<Entry("cardId", cardId), Entry("attachmentId", attachmentId),
               Entry("includeMeta", Bool(includeMeta)),
               Entry("includeDataUri", Bool(includeDataUri))>>,
             trelloFetch("/cards/" \o JsString(cardId) \o "/attachments/"
                           \o JsString(attachmentId), Obj(<<>>)))

-----------------------------------------------------------------------------
(* "http" and "oldhttp": the express routes                                 *)

\* a GET route's call of the forwarding function with the endpoint alone
ForwardGet(endpoint) ==
  IF variant = "http"
  THEN trelloRequestHttp(endpoint, Obj(<<>>))
  ELSE trelloRequest(endpoint, "GET", Null)

IsExpress == variant \in {"http", "oldhttp"}

route_boards ==
  /\ Idle
  /\ IsExpress
  /\ Begin("GET /boards", <<>>, ForwardGet("/members/me/boards"))

route_board_lists ==
  /\ Idle
  /\ IsExpress
  /\ \E boardId \in OptBoardIds \ {Undef, Str("")} :
       Begin("GET /boards/:boardId/lists", <<Entry("boardId", boardId)>>,
             ForwardGet("/boards/" \o JsString(boardId) \o "/lists"))

route_list_cards ==
  /\ Idle
  /\ IsExpress
  /\ \E listId \in ListIds :
       Begin("GET /lists/:listId/cards", <<Entry("listId", listId)>>,
             ForwardGet("/lists/" \o JsString(listId) \o "/cards"))

route_card ==
  /\ Idle
  /\ IsExpress
  /\ \E cardId \in CardIds :
       Begin("GET /cards/:cardId", <<Entry("cardId", cardId)>>,
             ForwardGet("/cards/" \o JsString(cardId)))

route_card_attachments ==
  /\ Idle
  /\ IsExpress
  /\ \E cardId \in CardIds :
       Begin("GET /cards/:cardId/attachments", <<Entry("cardId", cardId)>>,
             ForwardGet("/cards/" \o JsString(cardId) \o "/attachments"))

\* createCardSchema.safeParse(body).success
createCardSchema(body) ==
  /\ body.t = "obj"
  /\ Prop(body, "listId").t = "str" /\ Len(Prop(body, "listId").s) >= 1
  /\ Prop(body, "name").t = "str" /\ Len(Prop(body, "name").s) >= 1
  /\ Prop(body, "description").t \in {"undef", "str"}
  /\ \/ Prop(body, "pos").t \in {"undef", "num"}
     \/ Prop(body, "pos").t = "str" /\ Len(Prop(body, "pos").s) >= 1

\* "http": POST /cards
route_post_cards ==
  /\ Idle
  /\ variant = "http"
  /\ \E body \in PostBodies :
       IF ~createCardSchema(body)
       THEN /\ call' = [tool |-> "POST /cards", args |-> <<Entry("body", body)>>]
            /\ result' = [kind |-> "error", status |-> 400, isError |-> FALSE,
                          msg |-> "Invalid request body", data |-> Undef]
            /\ pc' = "done"
            /\ sent' = <<>>
            /\ UNCHANGED <<env, proc, responses, attachment, parsedUrl, hist>>
       ELSE LET pos == Prop(body, "pos")
            IN Begin("POST /cards", <<Entry("body", body)>>,
                     trelloRequestHttp("/cards",
                       Obj(<<Entry("method", Str("POST")),
                             Entry("query",
                               Obj(<<Entry("idList", Prop(body, "listId")),
                                     Entry("name", Prop(body, "name")),
                                     Entry("desc", Coalesce(Prop(body, "description"), Undef)),
                                     Entry("pos", IF pos.t = "undef" THEN Undef
                                                  ELSE Str(JsString(pos)))>>))>>)))

\* "oldhttp": POST /cards, which destructures the body without validating it
route_post_cards_old ==
  /\ Idle
  /\ variant = "oldhttp"
  /\ \E body \in PostBodies :
       Begin("POST /cards", <<Entry("body", body)>>,
             trelloRequest("/cards", "POST",
               Obj(<<Entry("idList", Prop(body, "listId")),
                     Entry("name", Prop(body, "name")),
                     Entry("desc", OrElse(Prop(body, "description"), Str("")))>>)))

\* "http": GET /cards/:cardId/attachments/:attachmentId/content
route_attachment_content ==
  /\ Idle
  /\ variant = "http"
  /\ \E cardId \in CardIds, attachmentId \in AttIds :
       Begin("GET /cards/:cardId/attachments/:attachmentId/content",
             <<Entry("cardId", cardId), Entry("attachmentId", attachmentId)>>,
             trelloRequestHttp("/cards/" \o JsString(cardId) \o "/attachments/"
                                 \o JsString(attachmentId), Obj(<<>>)))

-----------------------------------------------------------------------------
(* "fastmcp": the tools of src/index.js                                     *)

Min(a, b) == IF a < b THEN a ELSE b

get_boards ==
  /\ Idle
  /\ variant = "fastmcp"
  /\ Begin("get_boards", <<>>, trelloRequest("/members/me/boards", "GET", Null))

get_lists ==
  /\ Idle
  /\ variant = "fastmcp"
  /\ \E boardId \in OptBoardIds :
       LET targetBoardId == OrElse(boardId, BOARD_ID)
       IN Begin("get_lists", <<Entry("boardId", boardId)>>,
                IF ~Truthy(targetBoardId)
                THEN Throw("No board ID provided and TRELLO_BOARD_ID environment variable not set")
                ELSE trelloRequest("/boards/" \o JsString(targetBoardId) \o "/lists",
                                   "GET", Null))

get_cards ==
  /\ Idle
  /\ variant = "fastmcp"
  /\ \E listId \in ListIds :
       Begin("get_cards", <<Entry("listId", listId)>>,
             trelloRequest("/lists/" \o JsString(listId) \o "/cards", "GET", Null))

create_card ==
  /\ Idle
  /\ variant = "fastmcp"
  /\ \E listId \in ListIds, name \in CardNames, desc \in OptDescs, pos \in OptPos :
       LET cardData == <<Entry("idList", listId), Entry("name", name),
                         Entry("desc", OrElse(desc, Str("")))>>
                       \o (IF Truthy(pos) THEN <<Entry("pos", pos)>> ELSE <<>>)
       IN Begin("create_card",
                <<Entry("listId", listId), Entry("name", name),
                  Entry("desc", desc), Entry("pos", pos)>>,
                trelloRequest("/cards", "POST", Obj(cardData)))

update_card ==
  /\ Idle
  /\ variant = "fastmcp"
  /\ \E cardId \in CardIds, name \in {Undef, Str("n")}, desc \in OptDescs :
       LET updates == (IF name.t # "undef" THEN <<Entry("name", name)>> ELSE <<>>)
                      \o (IF desc.t # "undef" THEN <<Entry("desc", desc)>> ELSE <<>>)
       IN Begin("update_card",
                <<Entry("cardId", cardId), Entry("name", name), Entry("desc", desc)>>,
                IF Len(updates) = 0
                THEN Throw("No updates provided. Please specify name or desc to update.")
                ELSE trelloRequest("/cards/" \o JsString(cardId), "PUT", Obj(updates)))

move_card ==
  /\ Idle
  /\ variant = "fastmcp"
  /\ \E cardId \in CardIds, listId \in ListIds, pos \in OptPos :
       LET updates == <<Entry("idList", listId)>>
                      \o (IF Truthy(pos) THEN <<Entry("pos", pos)>> ELSE <<>>)
       IN Begin("move_card",
                <<Entry("cardId", cardId), Entry("listId", listId), Entry("pos", pos)>>,
                trelloRequest("/cards/" \o JsString(cardId), "PUT", Obj(updates)))

archive_card ==
  /\ Idle
  /\ variant = "fastmcp"
  /\ \E cardId \in CardIds :
       Begin("archive_card", <<Entry("cardId", cardId)>>,
             trelloRequest("/cards/" \o JsString(cardId), "PUT",
                           Obj(<<Entry("closed", Bool(TRUE))>>)))

get_board_activity ==
  /\ Idle
  /\ variant = "fastmcp"
  /\ \E boardId \in OptBoardIds, limitArg \in OptLimits :
       LET limit == Default(limitArg, Num(10))
           targetBoardId == OrElse(boardId, BOARD_ID)
           maxLimit == Min(limit.n, 50)
       IN Begin("get_board_activity",
                <<Entry("boardId", boardId), Entry("limit", limitArg)>>,
                IF ~Truthy(targetBoardId)
                THEN Throw("No board ID provided and TRELLO_BOARD_ID environment variable not set")
                ELSE trelloRequest("/boards/" \o JsString(targetBoardId)
                                     \o "/actions?limit=" \o NatToStr(maxLimit),
                                   "GET", Null))

-----------------------------------------------------------------------------
(* The handlers after their awaits                                          *)

AttachmentTools ==
  {"getAttachmentContent", "GET /cards/:cardId/attachments/:attachmentId/content"}

\* a Buffer, as the array of its bytes
Bytes(b) ==
  [t |-> "bytes", s |-> "", n |-> 0,
   o |-> [i \in 1..Len(b) |-> Entry(NatToStr(i - 1), Num(b[i]))]]

\* the base64 alphabet; B64Char(i) is the character of the 6-bit value i
B64Alphabet == "ABCDEFGHIJKLMNOPQRSTUVWXYZabcdefghijklmnopqrstuvwxyz0123456789+/"

B64Char(i) == CharAt(B64Alphabet, i + 1)

\* mutant: the bytes after the last full group of three are dropped
RECURSIVE Base64_DropsTail(_)
Base64_DropsTail(b) ==
  IF Len(b) < 3 THEN ""
  ELSE B64Char(b[1] \div 4)
         \o B64Char((b[1] % 4) * 16 + b[2] \div 16)
         \o B64Char((b[2] % 16) * 4 + b[3] \div 64)
         \o B64Char(b[3] % 64)
         \o Base64_DropsTail(SubSeq(b, 4, Len(b)))

\* buffer.toString('base64'): three bytes give four characters, a last group
\* of one or two bytes is padded with "="
RECURSIVE Base64(_)
Base64(b) ==
  IF Len(b) = 0 THEN ""
  ELSE IF Len(b) = 1
  THEN B64Char(b[1] \div 4) \o B64Char((b[1] % 4) * 16) \o "=="
  ELSE IF Len(b) = 2
  THEN B64Char(b[1] \div 4)
         \o B64Char((b[1] % 4) * 16 + b[2] \div 16)
         \o B64Char((b[2] % 16) * 4) \o "="
  ELSE B64Char(b[1] \div 4)
         \o B64Char((b[1] % 4) * 16 + b[2] \div 16)
         \o B64Char((b[2] % 16) * 4 + b[3] \div 64)
         \o B64Char(b[3] % 64)
         \o Base64(SubSeq(b, 4, Len(b)))

\* attachment.mimeType || headers.get('content-type') || 'application/octet-stream'
MimeType(att, r) ==
  OrElse(OrElse(Prop(att, "mimeType"), Str(r.ctype)), Str("application/octet-stream"))

\* what an attachment-content handler answers once the download succeeded:
\* the payload of getAttachmentContent, the binary response of the route
Deliver(r) ==
  LET mimeType == MimeType(attachment, r)
      base64 == Base64(r.bytes)
  IN IF variant = "mcp"
     THEN [kind |-> "ok", status |-> 0, isError |-> FALSE, msg |-> "",
           data |-> Obj(<<Entry("mimeType", mimeType),
                          Entry("bytes", Num(Len(r.bytes))),
                          Entry("filename",
                                OrElse(OrElse(Prop(attachment, "fileName"),
                                              Prop(attachment, "name")), Null)),
                          Entry("url", Prop(attachment, "url")),
                          Entry("base64", Str(base64))>>
                        \o (IF Truthy(Default(Get(call.args, "includeDataUri"), Bool(FALSE)))
                            THEN <<Entry("dataUri",
                                         Str("data:" \o JsString(mimeType)
                                               \o ";base64," \o base64))>>
                            ELSE <<>>)
                        \o (IF Truthy(Default(Get(call.args, "includeMeta"), Bool(FALSE)))
                            THEN <<Entry("attachment", attachment)>>
                            ELSE <<>>))]
     ELSE [kind |-> "ok", status |-> 200, isError |-> FALSE, msg |-> "",
           data |-> Obj(<<Entry("Content-Type", mimeType),
                          Entry("Content-Length", Num(Len(r.bytes))),
                          Entry("body", Bytes(r.bytes))>>)]

\* the GET to the attachment's URL
DownloadReq(url) == Req("attachment", "GET", Href(url), Undef, "")

\* mutant: the status of the answer is not looked at
Settle_IgnoresStatus(r) == IF r.net THEN Value(r.json) ELSE Err(r.errmsg)

\* the forwarding function from its await on, in the program that runs
Settle(r) == IF variant = "mcp" THEN trelloFetchSettle(r) ELSE trelloRequestSettle(r)

\* the rest of a handler once its forwarding call got the response r: it ends
\* with the error or with Trello's JSON, or, for attachment content, goes on to
\* the first download attempt
Resume(r) ==
  LET out == Settle(r)
      urlString == JsString(Prop(out.json, "url"))
  IN /\ responses' = Append(responses, r)
     /\ IF ~out.ok
        THEN /\ result' = Raise(call.tool, out.msg)
             /\ pc' = "done"
             /\ UNCHANGED <<sent, attachment, parsedUrl>>
        ELSE IF variant = "fastmcp" /\ FormatThrows(call.tool, out.json) # ""
        THEN /\ result' = Raise(call.tool, FormatThrows(call.tool, out.json))
             /\ pc' = "done"
             /\ UNCHANGED <<sent, attachment, parsedUrl>>
        ELSE IF call.tool \notin AttachmentTools
        THEN /\ result' = Respond(call.tool, out.json)
             /\ pc' = "done"
             /\ UNCHANGED <<sent, attachment, parsedUrl>>
        ELSE IF ~Truthy(Prop(out.json, "url"))
        THEN /\ result' = Raise(call.tool, "Attachment URL not available")
             /\ pc' = "done"
             /\ attachment' = out.json
             /\ UNCHANGED <<sent, parsedUrl>>
        ELSE IF ~IsUrl(urlString)
        THEN /\ result' = Raise(call.tool, "Attachment URL is invalid")
             /\ pc' = "done"
             /\ attachment' = out.json
             /\ UNCHANGED <<sent, parsedUrl>>
        ELSE /\ attachment' = out.json
             /\ parsedUrl' = NewURL(urlString)
             /\ sent' = Append(sent, DownloadReq(NewURL(urlString)))
             /\ pc' = "dl1"
             /\ UNCHANGED result

\* the JSON bodies Trello may answer the current call with
JsonsFor(tool) == IF tool \in AttachmentTools THEN AttachmentJsons ELSE EntityJsons

\* mutant: a non-2xx answer makes the forwarding function send the request again
FetchSettles_Retry ==
  /\ pc = "fetch"
  /\ \E r \in TrelloResponses(JsonsFor(call.tool)) :
       IF r.net /\ ~IsOk(r) /\ Len(sent) = 1
       THEN /\ responses' = Append(responses, r)
            /\ sent' = Append(sent, sent[1])
            /\ UNCHANGED <<pc, result, attachment, parsedUrl>>
       ELSE Resume(r)
  /\ UNCHANGED <<env, proc, call, hist>>

\* the forwarding call of the current handler settles: trelloFetch /
\* trelloRequest resumes after `await fetch` and the handler runs on
FetchSettles ==
  /\ pc = "fetch"
  /\ \E r \in TrelloResponses(JsonsFor(call.tool)) : Resume(r)
  /\ UNCHANGED <<env, proc, call, hist>>

\* mutant: a failed retry is retried once more
DownloadSettles_RetryAgain ==
  /\ pc \in {"dl1", "dl2"}
  /\ \E r \in DownloadResponses :
       LET out == attemptFetch(r)
       IN /\ responses' = Append(responses, r)
          /\ IF out.ok
             THEN /\ result' = Deliver(r)
                  /\ pc' = "done"
                  /\ UNCHANGED sent
             ELSE IF Len(sent) < 4 /\ ShouldRetry(out.msg)
             THEN /\ sent' = Append(sent,
                                    DownloadReq(appendAuthParams(NewURL(Href(parsedUrl)))))
                  /\ pc' = "dl2"
                  /\ UNCHANGED result
             ELSE /\ result' = Raise(call.tool, out.msg)
                  /\ pc' = "done"
                  /\ UNCHANGED sent
  /\ UNCHANGED <<env, proc, call, attachment, parsedUrl, hist>>

\* a download attempt settles: attemptFetch resumes after `await fetch`.  A
\* failed first attempt whose message mentions 401 or 403 is retried with the
\* credentials on a copy of the URL; everything else ends the handler
DownloadSettles ==
  /\ pc \in {"dl1", "dl2"}
  /\ \E r \in DownloadResponses :
       LET out == attemptFetch(r)
       IN /\ responses' = Append(responses, r)
          /\ IF out.ok
             THEN /\ result' = Deliver(r)
                  /\ pc' = "done"
                  /\ UNCHANGED sent
             ELSE IF pc = "dl1" /\ ShouldRetry(out.msg)
             THEN /\ sent' = Append(sent,
                                    DownloadReq(appendAuthParams(NewURL(Href(parsedUrl)))))
                  /\ pc' = "dl2"
                  /\ UNCHANGED result
             ELSE /\ result' = Raise(call.tool, out.msg)
                  /\ pc' = "done"
                  /\ UNCHANGED sent
  /\ UNCHANGED <<env, proc, call, attachment, parsedUrl, hist>>

\* the handler has returned; the server waits for the next inbound call
NextCall ==
  /\ pc = "done"
  /\ pc' = "idle"
  /\ call' = NoCall
  /\ sent' = <<>>
  /\ responses' = <<>>
  /\ attachment' = Undef
  /\ parsedUrl' = NoUrl
  /\ result' = NoResult
  /\ UNCHANGED <<env, proc, hist>>

Next ==
  \/ Startup
  \/ listBoards \/ getBoardLists \/ getListCards \/ getCard
  \/ getCardAttachments \/ createCard \/ getAttachmentContent
  \/ route_boards \/ route_board_lists \/ route_list_cards \/ route_card
  \/ route_card_attachments \/ route_post_cards \/ route_post_cards_old
  \/ route_attachment_content
  \/ get_boards \/ get_lists \/ get_cards \/ create_card \/ update_card
  \/ move_card \/ archive_card \/ get_board_activity
  \/ FetchSettles \/ DownloadSettles \/ NextCall

Spec == Init /\ [][Next]_vars

-----------------------------------------------------------------------------
(* The forwarding function called with any query mapping.  The tools pass   *)
(* only a few fixed mappings; this caller passes every mapping of up to     *)
(* MaxEntries entries, in each of the shapes the function accepts.          *)

QueryNames  == {"fields", "key", "token", "query", "body"}
QueryValues == {Undef, Null, Str("a b"), Num(7)}

HarnessEndpoints == {"/search", "/search?limit=5&fields=id"}

\* both programs with their credentials configured
InitQuery ==
  /\ variant \in {"mcp", "http"}
  /\ API_KEY = Str("K1")
  /\ TOKEN = Str("T1")
  /\ BOARD_ID = Undef
  /\ proc = "starting"
  /\ call = NoCall
  /\ pc = "idle"
  /\ sent = <<>>
  /\ responses = <<>>
  /\ attachment = Undef
  /\ parsedUrl = NoUrl
  /\ result = NoResult
  /\ hist = <<>>

\* the objects with up to MaxEntries entries, no name twice
QueryMappings ==
  { m \in UNION { [1..n -> {Entry(k, v) : k \in QueryNames, v \in QueryValues}] :
                  n \in 0..MaxEntries } :
      \A i, j \in 1..Len(m) : i # j => m[i].k # m[j].k }

\* "direct": the mapping itself is the options object (trelloFetch only);
\* "query": { query: mapping };  "full": { method: 'POST', query: mapping }
Modes == IF variant = "mcp" THEN {"direct", "query", "full"} ELSE {"query", "full"}

Options(mode, m) ==
  CASE mode = "direct" -> Obj(m)
    [] mode = "query"  -> Obj(<<Entry("query", Obj(m))>>)
    [] OTHER           -> Obj(<<Entry("method", Str("POST")), Entry("query", Obj(m))>>)

forward ==
  /\ Idle
  /\ variant \in {"mcp", "http"}
  /\ \E endpoint \in HarnessEndpoints, m \in QueryMappings, mode \in Modes :
       Begin("forward",
             <<Entry("endpoint", Str(endpoint)), Entry("mode", Str(mode)),
               Entry("query", Obj(m))>>,
             IF variant = "mcp"
             THEN trelloFetch(endpoint, Options(mode, m))
             ELSE trelloRequestHttp(endpoint, Options(mode, m)))

NextQuery == Startup \/ forward \/ FetchSettles \/ NextCall

SpecQuery == InitQuery /\ [][NextQuery]_vars

-----------------------------------------------------------------------------
(* appendAuthParams applied to any URL, and again to what it returned       *)

AuthNames  == {"key", "token", "sig"}
AuthValues == {"v1", "x y"}

\* URLs with up to MaxParams query parameters, and two whose query string is
\* not in the serializer's own form
HarnessUrls ==
  { [base |-> "https://h.io/a", search |-> Serialize(ps)] :
      ps \in UNION { [1..n -> {Entry(k, v) : k \in AuthNames, v \in AuthValues}] :
                     n \in 0..MaxParams } }
  \cup { NewURL("https://h.io/a?sig=x%20y&token"), NewURL("https://h.io/a?key=a%2Bb&key=c") }

\* the function is reached only with both credentials set: after ensureCreds
\* in trelloFetch, after the startup validation in the express program
InitAuth ==
  /\ variant \in {"mcp", "http"}
  /\ API_KEY = Str("K1")
  /\ TOKEN = Str("T1")
  /\ BOARD_ID = Undef
  /\ proc = "running"
  /\ call = NoCall
  /\ pc = "idle"
  /\ sent = <<>>
  /\ responses = <<>>
  /\ attachment = Undef
  /\ parsedUrl = NoUrl
  /\ result = NoResult
  /\ \E u \in HarnessUrls : hist = <<u>>

\* appendAuthParams changes the URL object it is given and returns it
ApplyAuth ==
  /\ Len(hist) \in {1, 2}
  /\ hist' = Append(hist, appendAuthParams(hist[Len(hist)]))
  /\ UNCHANGED <<env, proc, call, pc, sent, responses, attachment, parsedUrl, result>>

SpecAuth == InitAuth /\ [][ApplyAuth]_vars

-----------------------------------------------------------------------------
(* What the properties below read off the state                             *)

\* the query parameters of an outbound request, as its receiver parses them
QueryOf(req) == ParseQuery(NewURL(req.url).search)

PathOf(req) == NewURL(req.url).base

TrelloCount   == Cardinality({i \in 1..Len(sent) : sent[i].dest = "trello"})
DownloadCount == Cardinality({i \in 1..Len(sent) : sent[i].dest = "attachment"})

\* a response that carries a non-2xx status
Failed(r) == r.net /\ ~IsOk(r)

BoardRequiredMsg == "boardId is required (or set TRELLO_BOARD_ID)."

\* getBoardLists called with no board id while no default board is configured
NoBoardGiven ==
  /\ call.tool = "getBoardLists"
  /\ ~Truthy(Get(call.args, "boardId"))
  /\ ~Truthy(BOARD_ID)

-----------------------------------------------------------------------------
(* C1 *)

\* C1 as stated: with the API key or the token absent or empty, every inbound
\* call fails with the missing-credentials error and issues no outbound request.
C1_Original ==
  (CredsMissing /\ pc # "idle") =>
    /\ sent = <<>>
    /\ pc = "done"
    /\ result.kind = "error"
    /\ result.msg = MissingCredsMsg

\* C1 as amended: with the API key or the token absent or empty, no inbound
\* call ever issues an outbound request and every one fails: with the
\* missing-credentials error, except getBoardLists called without a board id
\* and without a default board, which fails with its board-id-required error
\* before the credential check is reached.  The express and fastmcp programs
\* exit at startup and serve no call at all.
C1_NoCallWithoutCreds ==
  /\ (CredsMissing /\ variant # "mcp") => (proc # "running" /\ pc = "idle")
  /\ CredsMissing => sent = <<>>
  /\ (CredsMissing /\ pc # "idle") =>
       /\ pc = "done"
       /\ result.kind = "error"
       /\ result.msg = IF NoBoardGiven THEN BoardRequiredMsg ELSE MissingCredsMsg

\* an attachment-content call made without credentials has failed
C1_Witness ==
  /\ CredsMissing
  /\ pc = "done"
  /\ call.tool = "getAttachmentContent"
  /\ result.msg = MissingCredsMsg

-----------------------------------------------------------------------------
(* C2 *)

\* C2: when the first download attempt fails with a status other than 401 or
\* 403, whatever the response body and status text, no second download request
\* is issued and the caller gets the error of the first attempt.
C2_NoRetryOnOtherStatus ==
  (/\ Len(responses) >= 2
   /\ Failed(responses[2])
   /\ responses[2].status \notin {401, 403}) =>
    /\ DownloadCount = 1
    /\ pc = "done"
    /\ result.kind = "error"
    /\ Includes(result.msg, NatToStr(responses[2].status))

-----------------------------------------------------------------------------
(* C3 *)

\* the first attempt of the download failed with 401 or 403
FirstAttemptUnauthorized ==
  /\ Len(responses) >= 2
  /\ Failed(responses[2])
  /\ responses[2].status \in {401, 403}

\* the caller got the outcome of the download response r
GotOutcomeOf(r) ==
  /\ pc = "done"
  /\ IF ~r.net THEN result.kind = "error" /\ result.msg = r.errmsg
     ELSE IF ~IsOk(r)
          THEN result.kind = "error" /\ Includes(result.msg, NatToStr(r.status))
          ELSE /\ result.kind = "ok"
               /\ Len(r.bytes) \in {Prop(result.data, "bytes").n,
                                    Prop(result.data, "Content-Length").n}

\* the retry went to the same URL: same address, same other parameters
SameUrlButAuth(first, second) ==
  /\ second.dest = "attachment"
  /\ second.method = "GET"
  /\ PathOf(second) = PathOf(first)
  /\ \A k \in (Keys(QueryOf(first)) \cup Keys(QueryOf(second))) \ {"key", "token"} :
       ParamValues(QueryOf(second), k) = ParamValues(QueryOf(first), k)

\* C3 as stated: after a first attempt that failed with 401 or 403 exactly one
\* further request is issued, to the same URL carrying the configured key and
\* token; its outcome is what the caller gets and there is no third request.
C3_Original ==
  FirstAttemptUnauthorized =>
    /\ DownloadCount = 2
    /\ SameUrlButAuth(sent[2], sent[3])
    /\ ParamValues(QueryOf(sent[3]), "key") = <<JsString(API_KEY)>>
    /\ ParamValues(QueryOf(sent[3]), "token") = <<JsString(TOKEN)>>
    /\ Len(responses) = 3 => GotOutcomeOf(responses[3])

\* C3 as amended: the retry carries the configured key and token except where
\* the URL already had a key or a token parameter, which is then kept as it
\* was; the rest of the claim is unchanged.
C3_RetryOnce ==
  FirstAttemptUnauthorized =>
    /\ DownloadCount = 2
    /\ SameUrlButAuth(sent[2], sent[3])
    /\ ParamValues(QueryOf(sent[3]), "key") =
         IF "key" \in Keys(QueryOf(sent[2]))
         THEN ParamValues(QueryOf(sent[2]), "key") ELSE <<JsString(API_KEY)>>
    /\ ParamValues(QueryOf(sent[3]), "token") =
         IF "token" \in Keys(QueryOf(sent[2]))
         THEN ParamValues(QueryOf(sent[2]), "token") ELSE <<JsString(TOKEN)>>
    /\ Len(responses) = 3 => GotOutcomeOf(responses[3])

\* a 403 on the first attempt, a retry that failed too, and its error returned
C3_Witness ==
  /\ FirstAttemptUnauthorized
  /\ responses[2].status = 403
  /\ Len(responses) = 3
  /\ Failed(responses[3])
  /\ responses[3].status = 404
  /\ pc = "done"
  /\ "token" \notin Keys(QueryOf(sent[2]))

-----------------------------------------------------------------------------
(* C4 *)

\* C4: every request sent to the Trello API carries exactly the configured API
\* key as its `key` parameter and the configured token as its `token` parameter.
C4_AuthOnEveryRequest ==
  \A i \in 1..Len(sent) :
    sent[i].dest = "trello" =>
      /\ ParamValues(QueryOf(sent[i]), "key") = <<JsString(API_KEY)>>
      /\ ParamValues(QueryOf(sent[i]), "token") = <<JsString(TOKEN)>>

-----------------------------------------------------------------------------
(* C5 *)

\* C5: a forwarding call that got past the credential check makes exactly one
\* round trip to Trello, whatever the outcome (success, non-2xx status,
\* undecodable JSON, network failure): while it waits and after it has settled
\* there is one Trello request, never a second one.
C5_OneRoundTrip ==
  /\ TrelloCount <= 1
  /\ pc \in {"fetch", "dl1", "dl2"} => TrelloCount = 1
  /\ responses # <<>> => (TrelloCount = 1 /\ sent[1].dest = "trello")
  /\ (pc = "done" /\ responses = <<>>) => (sent = <<>> /\ result.kind = "error")

\* Trello answered 500 with an unreadable body and the handler has ended
C5_Witness ==
  /\ pc = "done"
  /\ Len(responses) = 1
  /\ Failed(responses[1])
  /\ responses[1].status = 500
  /\ ~responses[1].textOk
  /\ ~responses[1].textOk
  /\ TrelloCount = 1

-----------------------------------------------------------------------------
(* C6 *)

\* the set of name/value pairs a parameter list or a flat object holds
Pairs(es) == {<<es[i].k, es[i].v>> : i \in 1..Len(es)}

\* a create-card call for list L1 and name "Fix bug" with no description and
\* no position, made with credentials configured
PlainCreate ==
  /\ pc # "idle"
  /\ ~CredsMissing
  /\ \/ /\ call.tool = "createCard"
        /\ Get(call.args, "idList") = Str("L1")
        /\ Get(call.args, "name") = Str("Fix bug")
        /\ Get(call.args, "desc") = Undef
        /\ Get(call.args, "pos") = Undef
     \/ /\ call.tool = "create_card"
        /\ Get(call.args, "listId") = Str("L1")
        /\ Get(call.args, "name") = Str("Fix bug")
        /\ Get(call.args, "desc") = Undef
        /\ Get(call.args, "pos") = Undef
     \/ /\ call.tool = "POST /cards"
        /\ Get(call.args, "body") =
             Obj(<<Entry("listId", Str("L1")), Entry("name", Str("Fix bug"))>>)

\* a POST to /cards with exactly idList, name, key and token in the query
\* string and no body
QueryOnlyCreate(req) ==
  /\ req.dest = "trello"
  /\ req.method = "POST"
  /\ PathOf(req) = TRELLO_BASE \o "/cards"
  /\ Len(QueryOf(req)) = 4
  /\ Pairs(QueryOf(req)) =
       { <<"idList", "L1">>, <<"name", "Fix bug">>,
         <<"key", JsString(API_KEY)>>, <<"token", JsString(TOKEN)>> }
  /\ req.body = Undef

\* C6 as stated: in every variant the plain create-card call sends a POST to
\* /cards whose parameters are exactly idList, name, key and token, with no
\* desc and no pos in the query string or in a body.
C6_Original == PlainCreate => (Len(sent) >= 1 /\ QueryOnlyCreate(sent[1]))

\* C6 as amended: createCard of the McpServer program and POST /cards of the
\* current express program do as stated; create_card of the fastmcp program
\* and POST /cards of the older express program send key and token alone in
\* the query string and a JSON body {idList: "L1", name: "Fix bug", desc: ""},
\* with no pos.
C6_CreateCard ==
  PlainCreate =>
    /\ Len(sent) >= 1
    /\ IF variant \in {"mcp", "http"}
       THEN QueryOnlyCreate(sent[1])
       ELSE /\ sent[1].dest = "trello"
            /\ sent[1].method = "POST"
            /\ PathOf(sent[1]) = TRELLO_BASE \o "/cards"
            /\ Len(QueryOf(sent[1])) = 2
            /\ Pairs(QueryOf(sent[1])) =
                 { <<"key", JsString(API_KEY)>>, <<"token", JsString(TOKEN)>> }
            /\ sent[1].ctype = "application/json"
            /\ sent[1].body.t = "obj"
            /\ Len(sent[1].body.o) = 3
            /\ Pairs(sent[1].body.o) =
                 { <<"idList", Str("L1")>>, <<"name", Str("Fix bug")>>,
                   <<"desc", Str("")>> }

\* createCard of the McpServer program has created the card
C6_Witness ==
  /\ PlainCreate
  /\ call.tool = "createCard"
  /\ pc = "done"
  /\ result.kind = "ok"

-----------------------------------------------------------------------------
(* C9 *)

\* C9: when Trello answers a forwarding call with a non-2xx status s, the call
\* fails with an error whose message contains s, and an express route answers
\* with status 500 and that message.
C9_UpstreamError ==
  (Len(responses) >= 1 /\ Failed(responses[1])) =>
    /\ pc = "done"
    /\ result.kind = "error"
    /\ Includes(result.msg, NatToStr(responses[1].status))
    /\ IsExpress => result.status = 500

-----------------------------------------------------------------------------
(* C10 *)

\* a POST /cards body the claim calls invalid: listId or name missing or
\* empty, or pos neither absent, a number nor a non-empty string
InvalidBody(body) ==
  \/ ~(Prop(body, "listId").t = "str" /\ Prop(body, "listId").s # "")
  \/ ~(Prop(body, "name").t = "str" /\ Prop(body, "name").s # "")
  \/ ~(\/ Prop(body, "pos").t \in {"undef", "num"}
       \/ Prop(body, "pos").t = "str" /\ Prop(body, "pos").s # "")

PostedInvalid ==
  /\ call.tool = "POST /cards"
  /\ pc # "idle"
  /\ InvalidBody(Get(call.args, "body"))

\* C10: POST /cards of an express program answers an invalid body with 400 and
\* sends nothing to Trello; every other failure of a route is answered with 500.
C10_Validation ==
  /\ PostedInvalid =>
       /\ sent = <<>>
       /\ pc = "done"
       /\ result.kind = "error"
       /\ result.status = 400
  /\ (IsExpress /\ pc = "done" /\ result.kind = "error" /\ ~PostedInvalid) =>
       result.status = 500

-----------------------------------------------------------------------------
(* C7 *)

\* the parameters the URL has before any entry of the mapping is added
BaseParams(endpoint) == SearchParams(appendAuthParams(NewURL(TRELLO_BASE \o endpoint)))

\* C7: the URL built for a query mapping has no parameter for an entry whose
\* value is undefined or null (the name keeps what the endpoint and the
\* credentials gave it) and has every other entry exactly once, as a string,
\* also when the mapping is the options object itself and when a name is
\* key, token, query, body or a parameter of the endpoint.
C7_QueryEntries ==
  (call.tool = "forward" /\ sent # <<>>) =>
    LET m == Get(call.args, "query").o
        q == QueryOf(sent[1])
        q0 == BaseParams(Get(call.args, "endpoint").s)
    IN \A i \in 1..Len(m) :
         ParamValues(q, m[i].k) =
           IF Nullish(m[i].v) THEN ParamValues(q0, m[i].k)
           ELSE <<JsString(m[i].v)>>

-----------------------------------------------------------------------------
(* C8 *)

\* C8: appendAuthParams leaves the address and every other parameter alone,
\* keeps a key or token parameter the URL already has with its value, adds
\* the configured value once for the one it lacks, and applied again to its
\* own result returns the same URL.
C8_Idempotent ==
  Len(hist) >= 2 =>
    LET q0 == SearchParams(hist[1])
        q1 == SearchParams(hist[2])
    IN /\ hist[2].base = hist[1].base
       /\ \A k \in (Keys(q0) \cup Keys(q1)) \ {"key", "token"} :
            ParamValues(q1, k) = ParamValues(q0, k)
       /\ ParamValues(q1, "key") =
            IF "key" \in Keys(q0) THEN ParamValues(q0, "key") ELSE <<JsString(API_KEY)>>
       /\ ParamValues(q1, "token") =
            IF "token" \in Keys(q0) THEN ParamValues(q0, "token") ELSE <<JsString(TOKEN)>>
       /\ Len(hist) = 3 => Href(hist[3]) = Href(hist[2])

\* applied twice to a URL that came with a token parameter and no key
C8_Witness ==
  /\ Len(hist) = 3
  /\ "token" \in Keys(SearchParams(hist[1]))
  /\ "key" \notin Keys(SearchParams(hist[1]))
  /\ ParamValues(SearchParams(hist[3]), "key") = <<"K1">>

-----------------------------------------------------------------------------
(* C11 *)

\* the programs that serve MCP tools
IsMcp == variant \in {"mcp", "fastmcp"}

\* the handler has ended after one of the failures a call can meet: an
\* exception before any request (no board id, nothing to update, no
\* credentials), a request the network failed, a non-2xx answer, or a 2xx
\* answer whose JSON cannot be decoded
CallFailed ==
  /\ pc = "done"
  /\ \/ sent = <<>>
     \/ /\ responses # <<>>
        /\ LET r == responses[Len(responses)]
           IN ~r.net \/ ~IsOk(r) \/ (Len(responses) = 1 /\ ~r.jsonOk)

-----------------------------------------------------------------------------
(* C12 *)

\* the program has ended at startup, or has not started yet: it serves nothing
ServesNothing == proc \in {"starting", "exited"} /\ pc = "idle" /\ sent = <<>>

\* C12 as stated: with the API key or the token missing the express programs
\* end at startup and serve no route, while the stdio MCP server runs and each
\* of its tool calls fails with the missing-credentials error.
C12_Original ==
  CredsMissing =>
    /\ IsExpress => ServesNothing
    /\ variant = "mcp" =>
         /\ proc # "exited"
         /\ pc # "idle" => /\ proc = "running"
                           /\ pc = "done"
                           /\ result.isError
                           /\ result.msg = MissingCredsMsg

\* C12 as amended: the express programs and the fastmcp server end at startup;
\* the stdio MCP server runs and each of its tool calls fails on its own, with
\* the missing-credentials error, except getBoardLists called without a board
\* id and without a default board, which fails with its board-id-required
\* error; the server keeps running.
C12_StartupVsLazy ==
  CredsMissing =>
    /\ variant # "mcp" => ServesNothing
    /\ variant = "mcp" =>
         /\ proc # "exited"
         /\ pc # "idle" => /\ proc = "running"
                           /\ pc = "done"
                           /\ result.isError
                           /\ result.msg = IF NoBoardGiven THEN BoardRequiredMsg
                                           ELSE MissingCredsMsg

\* the stdio MCP server, started without a token, has failed a listBoards call
C12_Witness ==
  /\ variant = "mcp"
  /\ ~Truthy(TOKEN)
  /\ Truthy(API_KEY)
  /\ proc = "running"
  /\ pc = "done"
  /\ call.tool = "listBoards"
  /\ result.msg = MissingCredsMsg

-----------------------------------------------------------------------------
(* C13 *)

\* the limit the caller of get_board_activity gave (undefined when none)
GivenLimit == Get(call.args, "limit")

\* C13: the request of get_board_activity asks Trello for 10 activities when
\* the caller gave no limit and for min(limit, 50) otherwise: that number is
\* the value of the request's one `limit` parameter.
C13_ActivityLimit ==
  (call.tool = "get_board_activity" /\ sent # <<>>) =>
    ParamValues(QueryOf(sent[1]), "limit") =
      <<NatToStr(IF GivenLimit.t = "undef" THEN 10 ELSE Min(GivenLimit.n, 50))>>

-----------------------------------------------------------------------------
(* C14 *)

\* the tools that take an optional board id
BoardTools == {"get_lists", "getBoardLists", "get_board_activity"}

\* the board the claim expects: the caller's when one is given (a non-empty
\* string), else the configured one (undefined when there is none)
ExpectedBoard ==
  IF Truthy(Get(call.args, "boardId")) THEN Get(call.args, "boardId") ELSE BOARD_ID

\* C14: a call of get_lists, getBoardLists or get_board_activity addresses the
\* caller's board when one is given and the configured TRELLO_BOARD_ID
\* otherwise; with neither, it fails with an error and sends nothing.
C14_BoardDefault ==
  (call.tool \in BoardTools /\ pc # "idle") =>
    IF Truthy(ExpectedBoard)
    THEN /\ ~CredsMissing => (sent # <<>> /\ sent[1].dest = "trello")
         /\ sent # <<>> =>
              PathOf(sent[1]) =
                TRELLO_BASE \o "/boards/" \o ExpectedBoard.s
                  \o (IF call.tool = "get_board_activity" THEN "/actions" ELSE "/lists")
    ELSE /\ sent = <<>>
         /\ pc = "done"
         /\ result.kind = "error"
         /\ result.msg # ""

\* get_lists called without a board id has addressed the configured board
C14_Witness ==
  /\ call.tool = "get_lists"
  /\ ~Truthy(Get(call.args, "boardId"))
  /\ BOARD_ID = Str("B0")
  /\ sent # <<>>
  /\ PathOf(sent[1]) = TRELLO_BASE \o "/boards/B0/lists"

-----------------------------------------------------------------------------
(* C15 *)

\* the 6-bit value of a base64 character
B64Value(c) == IndexOf(B64Alphabet, c) - 1

\* base64 decoding: four characters give three bytes, two when the group ends
\* with one "=", one when it ends with two
RECURSIVE Base64Decode(_)
Base64Decode(s) ==
  IF Len(s) < 4 THEN <<>>
  ELSE LET v1 == B64Value(CharAt(s, 1))
           v2 == B64Value(CharAt(s, 2))
           c3 == CharAt(s, 3)
           c4 == CharAt(s, 4)
           rest == SubSeq(s, 5, Len(s))
       IN IF c3 = "="
          THEN <<v1 * 4 + v2 \div 16>>
          ELSE IF c4 = "="
          THEN <<v1 * 4 + v2 \div 16, (v2 % 16) * 16 + B64Value(c3) \div 4>>
          ELSE <<v1 * 4 + v2 \div 16,
                 (v2 % 16) * 16 + B64Value(c3) \div 4,
                 (B64Value(c3) % 4) * 64 + B64Value(c4)>>
               \o Base64Decode(rest)

\* getAttachmentContent has returned its payload
PayloadBuilt ==
  /\ call.tool = "getAttachmentContent"
  /\ pc = "done"
  /\ result.kind = "ok"

\* C15: in the payload built from the downloaded bytes b, `bytes` is the
\* length of b, `base64` decodes back to b, the MIME type is the attachment's
\* when it has one, and `dataUri` is "data:" + MIME type + ";base64," + that
\* base64 string when includeDataUri was asked for and absent otherwise.
C15_Payload ==
  PayloadBuilt =>
    LET b == responses[Len(responses)].bytes
        d == result.data
        m == Prop(d, "mimeType")
    IN /\ Prop(d, "bytes") = Num(Len(b))
       /\ Prop(d, "base64").t = "str"
       /\ Base64Decode(Prop(d, "base64").s) = b
       /\ Truthy(Prop(attachment, "mimeType")) => m = Prop(attachment, "mimeType")
       /\ IF Get(call.args, "includeDataUri") = Bool(TRUE)
          THEN Prop(d, "dataUri") = Str("data:" \o m.s \o ";base64," \o Prop(d, "base64").s)
          ELSE "dataUri" \notin Keys(d.o)

\* a four-byte image/png attachment delivered with its data URI
C15_Witness ==
  /\ PayloadBuilt
  /\ responses[Len(responses)].bytes = <<255, 0, 128, 7>>
  /\ Prop(result.data, "dataUri") = Str("data:image/png;base64,/wCABw==")
  /\ Prop(result.data, "bytes") = Num(4)

-----------------------------------------------------------------------------
(* C16 *)

\* the outbound calls of the current inbound call are made one after the
\* other: each request is sent after the answer to the one before it, and a
\* request is in flight exactly while the handler waits
Sequential ==
  /\ Len(responses) <= Len(sent)
  /\ Len(sent) <= Len(responses) + 1
  /\ (Len(sent) = Len(responses) + 1) <=> (pc \in {"fetch", "dl1", "dl2"})

\* C16 as stated: an ordinary call makes at most one outbound call, an
\* attachment-content call at most two, one after the other.
C16_Original ==
  /\ call.tool \notin AttachmentTools => Len(sent) <= 1
  /\ call.tool \in AttachmentTools => Len(sent) <= 2
  /\ Sequential

\* C16 as amended: an attachment-content call makes at most three outbound
\* calls, one to Trello for the attachment's metadata and at most two to the
\* attachment's host (the download and its one retry); the rest is unchanged.
C16_OutboundCalls ==
  /\ call.tool \notin AttachmentTools => Len(sent) <= 1
  /\ call.tool \in AttachmentTools =>
       /\ Len(sent) <= 3
       /\ TrelloCount <= 1
       /\ DownloadCount <= 2
       /\ DownloadCount >= 1 => sent[1].dest = "trello"
  /\ Sequential

\* an attachment-content request of the express program that took the
\* metadata call, the download and the retry
C16_Witness ==
  /\ variant = "http"
  /\ call.tool \in AttachmentTools
  /\ Len(sent) = 3
  /\ Len(responses) = 3
  /\ pc = "done"
  /\ result.kind = "ok"

-----------------------------------------------------------------------------
(* C17 *)

\* C17: the first download request goes to exactly the attachment's URL, with
\* no parameter added; a request carrying the configured credentials is sent
\* to the attachment's host only after the first attempt was answered 401 or
\* 403; and the URL object of the first attempt is still the parsed attachment
\* URL after the authenticated copy was built.
C17_PlainFirst ==
  (call.tool \in AttachmentTools /\ Len(sent) >= 2) =>
    /\ sent[2].dest = "attachment"
    /\ sent[2].url = Prop(attachment, "url").s
    /\ Len(sent) >= 3 =>
         /\ Failed(responses[2])
         /\ responses[2].status \in {401, 403}
    /\ parsedUrl = NewURL(Prop(attachment, "url").s)
    /\ Href(parsedUrl) = sent[2].url

-----------------------------------------------------------------------------
(* C18 *)

EndsWith(s, tail) ==
  /\ Len(tail) <= Len(s)
  /\ SubSeq(s, Len(s) - Len(tail) + 1, Len(s)) = tail

\* C18: a forwarding call answered with a non-success status s fails with an
\* error that carries s and, as its body, the response text, or the empty
\* string when the text cannot be read; an unreadable body never hides s; the
\* call is not retried.
C18_StatusKept ==
  (responses # <<>> /\ Failed(responses[1])) =>
    LET r == responses[1]
    IN /\ pc = "done"
       /\ result.kind = "error"
       /\ Includes(result.msg, NatToStr(r.status))
       /\ EndsWith(result.msg, IF r.textOk THEN r.text ELSE "")
       /\ ~r.textOk => ~Includes(result.msg, r.errmsg)
       /\ Len(sent) = 1

=============================================================================
